---------------------------- MODULE Spec2Model ----------------------------
(***************************************************************************)
(* igakit/io.py, class PetIGA: the reader/writer of the PetIGA binary      *)
(* formats (geometry, vector, sparse matrix).                              *)
(*                                                                         *)
(* Numbers.  An in-memory float64 is modelled by an integer (every integer *)
(* of magnitude below 2^53 is a float64); every array handed to the codec  *)
(* is real-valued.  A file is the sequence of the elements written to it,  *)
(* one number per element; a read of k elements of any type consumes k     *)
(* elements (element boundaries are kept by every file considered).        *)
(* Arrays are records [shape, data] with data the C-order (numpy default)  *)
(* flattening; indices are 0-based tuples as in numpy.                     *)
(***************************************************************************)
EXTENDS Integers, Sequences, FiniteSets, TLC

VARIABLES
    types,    \* self._types: the (I, R, S) dtypes fixed by __init__
    nurbs,    \* the NURBS object handed to write / write_vec / read_vec
    disk,     \* the file at `filename`: [exists, data]
    origin,   \* history: which operation produced the file now on disk
    fh,       \* the file handle of the last operation: none / open / closed
    res       \* outcome of the last operation (return value or exception)

vars == <<types, nurbs, disk, origin, fh, res>>

---------------------------------------------------------------------------
(* Bounds of the model *)
MaxN == 3          \* largest grid size n_i of a geometry
MaxDegree == 2     \* largest degree p_i of a geometry
MaxPoints == 8    \* largest number of control points prod(n_i)
MaxKnots == 12     \* largest total number of knots sum(m_i)
MaxDof == 2        \* largest number of degrees of freedom of a vector
MaxTamper == 2     \* fields of a file another program may have altered
MaxM == 2          \* largest row count of a matrix file
MaxNz == 2         \* largest nonzero count of a matrix file

---------------------------------------------------------------------------
(* Class constants *)
VEC_ID == 1211214
MAT_ID == 1211216
IGA_ID == 1211299

\* np.int32 limits ('>i4'), and the largest integer below which every
\* integer is a float32 ('>f4': 24-bit significand)
MaxInt32 == 2147483647
MinInt32 == -MaxInt32 - 1
F4Exact == 16777216

\* PetIGA.precision and PetIGA.indices: the dtype tables
precision ==
    [single |-> [real |-> "f4", complex |-> "c8"],
     double |-> [real |-> "f8", complex |-> "c16"]]

indices == [b32 |-> "i4", b64 |-> "i8"]

\* PetIGA.__init__: the tuple (I, R, S)
Types(prec, scalar, ind) ==
    [I |-> indices[ind], R |-> precision[prec]["real"], S |-> precision[prec][scalar]]

AllTypes ==
    { Types(p, s, i) : p \in {"single", "double"}, s \in {"real", "complex"},
                       i \in {"b32", "b64"} }

---------------------------------------------------------------------------
(* Element conversion *)

Abs(x) == IF x < 0 THEN -x ELSE x

\* float64 -> float32 of an integer-valued x, |x| <= 2^25: exact up to 2^24,
\* above it the even integers are the float32 values and a tie goes to the
\* even significand (the multiple of 4)
RoundF4(x) ==
    IF Abs(x) <= F4Exact \/ x % 2 = 0 THEN x
    ELSE IF (x - 1) % 4 = 0 THEN x - 1 ELSE x + 1

\* np.asarray(v, dtype) of a real number v within the dtype's range
AsType(dtype, v) ==
    IF dtype \in {"f4", "c8"} THEN RoundF4(v) ELSE v

\* np.asarray(array, dtype).tofile(fid): the elements appended to the file
_write(dtype, array) == [k \in 1..Len(array) |-> AsType(dtype, array[k])]

\* int32 scalar subtraction a - b: numpy wraps on overflow (with a warning)
SubInt32(a, b) ==
    IF b >= 0
    THEN IF a >= MinInt32 + b THEN a - b
         ELSE (a - MinInt32) + (MaxInt32 - b) + 1
    ELSE IF a <= MaxInt32 + b THEN a - b
         ELSE (a - MaxInt32) + (MinInt32 - b) - 1

\* scalar arithmetic on values read with dtype I; the model holds no int64
\* value near the int64 limits, so '>i8' arithmetic never wraps here
Sub(I, a, b) == IF I = "i4" THEN SubInt32(a, b) ELSE a - b

\* abs() of a numpy integer scalar: abs of the most negative int32 wraps
AbsIndex(I, x) == IF I = "i4" /\ x = MinInt32 THEN x ELSE Abs(x)

---------------------------------------------------------------------------
(* numpy index arithmetic *)

RECURSIVE Prod(_)
Prod(s) == IF s = <<>> THEN 1 ELSE Head(s) * Prod(Tail(s))

RECURSIVE SumSeq(_)
SumSeq(s) == IF s = <<>> THEN 0 ELSE Head(s) + SumSeq(Tail(s))

\* order='F' (column-major): the first index varies fastest
RECURSIVE RavelF(_, _)
RavelF(idx, shape) ==
    IF idx = <<>> THEN 0
    ELSE Head(idx) + Head(shape) * RavelF(Tail(idx), Tail(shape))

RECURSIVE UnravelF(_, _)
UnravelF(k, shape) ==
    IF shape = <<>> THEN <<>>
    ELSE <<k % Head(shape)>> \o UnravelF(k \div Head(shape), Tail(shape))

Front(s) == SubSeq(s, 1, Len(s) - 1)
Last(s) == s[Len(s)]

\* order='C' (row-major, numpy's memory layout): the last index varies fastest
RECURSIVE RavelC(_, _)
RavelC(idx, shape) ==
    IF idx = <<>> THEN 0
    ELSE Last(idx) + Last(shape) * RavelC(Front(idx), Front(shape))

RECURSIVE UnravelC(_, _)
UnravelC(k, shape) ==
    IF shape = <<>> THEN <<>>
    ELSE Append(UnravelC(k \div Last(shape), Front(shape)), k % Last(shape))

\* the array of the given shape whose element at index i is data[1 + C-index]
At(A, idx) == A.data[1 + RavelC(idx, A.shape)]

\* A[..., idx]: fancy indexing of the last axis
TakeLast(A, idx) ==
    LET shape == Front(A.shape) \o <<Len(idx)>>
    IN  [shape |-> shape,
         data |-> [k \in 1..Prod(shape) |->
                     LET i == UnravelC(k - 1, shape)
                     IN  At(A, Front(i) \o <<idx[Last(i) + 1]>>)]]

\* np.rollaxis(A, -1): the last axis becomes the first
RollLastToFront(A) ==
    LET shape == <<Last(A.shape)>> \o Front(A.shape)
    IN  [shape |-> shape,
         data |-> [k \in 1..Prod(shape) |->
                     LET i == UnravelC(k - 1, shape)
                     IN  At(A, Tail(i) \o <<Head(i)>>)]]

\* np.rollaxis(A, 0, A.ndim): the first axis becomes the last
RollFrontToLast(A) ==
    LET shape == Tail(A.shape) \o <<Head(A.shape)>>
    IN  [shape |-> shape,
         data |-> [k \in 1..Prod(shape) |->
                     LET i == UnravelC(k - 1, shape)
                     IN  At(A, <<Last(i)>> \o Front(i))]]

\* A.ravel() in place of A.ravel('f'): a writer flattening this way breaks
\* the layout of C8
RavelOrderC(A) == A.data

\* A.ravel('f')
RavelOrderF(A) ==
    [k \in 1..Prod(A.shape) |-> At(A, UnravelF(k - 1, A.shape))]

\* flat.reshape(shape) in place of flat.reshape(shape, order='f'): a reader
\* reshaping this way breaks the round trip of C1
ReshapeKeepFlat(flat, shape) == [shape |-> shape, data |-> flat]

\* flat.reshape(shape, order='f'); the caller has checked the size
ReshapeOrderF(flat, shape) ==
    [shape |-> shape,
     data |-> [k \in 1..Prod(shape) |->
                 flat[1 + RavelF(UnravelC(k - 1, shape), shape)]]]

\* flat.reshape(shape): C order keeps the flat data
ReshapeOrderC(flat, shape) == [shape |-> shape, data |-> flat]

\* list(range(n))
Range(n) == [k \in 1..n |-> k - 1]

---------------------------------------------------------------------------
(* The NURBS objects handed to the codec *)

None == <<>>
Some(x) == <<x>>

\* a clamped knot vector of degree p for n basis functions: p+1 zeros,
\* the interior knots 1, 2, ..., then the last value `top` repeated
KnotVector(p, n, top) ==
    [j \in 1..(n + p + 1) |->
        IF j <= p + 1 THEN 0 ELSE IF j > n THEN top ELSE j - p - 1]

\* a control net of shape sizes + (4,): every stored coordinate and weight
\* is a distinct positive number; the spatial channels c >= dim hold zero
\* unless `junk`; with `big` the last weight is not a float32
ControlNet(sizes, junk, big) ==
    LET shape == sizes \o <<4>>
        dim == Len(sizes)
    IN  [shape |-> shape,
         data |-> [k \in 1..Prod(shape) |->
                     LET c == Last(UnravelC(k - 1, shape))
                     IN  IF c >= dim /\ c < 3 /\ ~junk THEN 0
                         ELSE IF big /\ k = Prod(shape) THEN F4Exact + 1
                         ELSE k]]

\* nurbs.dim, nurbs.degree, nurbs.knots, nurbs.shape, nurbs.control
Nurbs(degree, sizes, junk, big) ==
    [dim |-> Len(sizes),
     degree |-> degree,
     shape |-> sizes,
     knots |-> [i \in 1..Len(sizes) |->
                  KnotVector(degree[i], sizes[i],
                             IF big THEN F4Exact + 1 ELSE sizes[i])],
     control |-> ControlNet(sizes, junk, big)]

GridShapes(maxPoints) ==
    { s \in UNION { [1..d -> 2..MaxN] : d \in 1..3 } : Prod(s) <= maxPoints }

Degrees(d) == [1..d -> 1..MaxDegree]

KnotCount(degree, sizes) == SumSeq(degree) + SumSeq(sizes) + Len(sizes)

Geometries(maxPoints, maxKnots) ==
    { Nurbs(p, s, junk, big) :
        <<s, p>> \in { sp \in UNION { {s} \X Degrees(Len(s)) : s \in GridShapes(maxPoints) } :
                          KnotCount(sp[2], sp[1]) <= maxKnots },
        <<junk, big>> \in {<<FALSE, FALSE>>, <<TRUE, FALSE>>, <<FALSE, TRUE>>} }

---------------------------------------------------------------------------
(* Files and outcomes *)

NoFile == [exists |-> FALSE, data |-> <<>>]
File(data) == [exists |-> TRUE, data |-> data]

RECURSIVE Concat(_)
Concat(chunks) ==
    IF chunks = <<>> THEN <<>> ELSE Head(chunks) \o Concat(Tail(chunks))

\* try: ... finally: fh.close() -- the handle once the operation has ended
\* a close that is skipped when the body raises (no try/finally): breaks C6
CloseOnReturn(opened, raised) ==
    IF ~opened THEN "none" ELSE IF raised THEN "open" ELSE "closed"

Finally(opened, raised) == IF opened THEN "closed" ELSE "none"

Raise(op, exc, at, pos) ==
    [op |-> op, status |-> exc, at |-> at, pos |-> pos]

---------------------------------------------------------------------------
(* PetIGA.write *)

\* lines 64-74: the checks and the flattened control values made before the
\* file is opened
\* the checks of write without `assert nsd <= 3`: breaks C9
WriteArgsNoUpperBound(g, geometry, nsd) ==
    IF nsd = None THEN TRUE
    ELSE IF geometry THEN g.dim <= nsd[1] ELSE FALSE

WriteArgsOk(g, geometry, nsd) ==
    IF nsd = None THEN TRUE
    ELSE IF geometry THEN g.dim <= nsd[1] /\ nsd[1] <= 3
    ELSE FALSE

SavedDim(g, nsd) == IF nsd = None THEN g.dim ELSE nsd[1]

ControlValues(g, nsd) ==
    LET idx == Range(nsd) \o <<3>>
        Cw == TakeLast(g.control, idx)
    IN  RavelOrderF(RollLastToFront(Cw))

\* lines 78-89: the _write calls in order, one chunk of elements per call
RECURSIVE AxisChunks(_, _, _)
AxisChunks(T, degree, knots) ==
    IF degree = <<>> THEN <<>>
    ELSE << _write(T.I, <<Head(degree)>>),
            _write(T.I, <<Len(Head(knots))>>),
            _write(T.R, Head(knots)) >>
         \o AxisChunks(T, Tail(degree), Tail(knots))

WriteChunks(T, g, geometry, nsd) ==
    LET descr == IF geometry THEN 1 ELSE 0
        Cw == ControlValues(g, nsd)
    IN  << _write(T.I, <<IGA_ID>>),
           _write(T.I, <<descr>>),
           _write(T.I, <<g.dim>>) >>
        \o AxisChunks(T, g.degree, g.knots)
        \o IF geometry
           THEN << _write(T.I, <<nsd>>),
                   _write(T.I, <<VEC_ID>>),
                   _write(T.I, <<Len(Cw)>>),
                   _write(T.S, Cw) >>
           ELSE <<>>

\* the position of the element count of the control data in a file written
\* for g: 3 header fields, 2 fields and the knots per axis, then nsd, the
\* vector magic and the count
CountOffset(g) == 3 + 2 * g.dim + SumSeq([i \in 1..g.dim |-> Len(g.knots[i])]) + 3

\* write(filename, nurbs, geometry, nsd); `done` is the number of _write
\* calls that complete before the stream raises an I/O error (all of them
\* when done = Len(chunks))
write(geometry, nsd, done) ==
    IF ~WriteArgsOk(nurbs, geometry, nsd)
    THEN /\ res' = [op |-> "write", status |-> "AssertionError",
                     geometry |-> geometry, nsd |-> nsd]
         /\ fh' = Finally(FALSE, TRUE)
         /\ UNCHANGED <<types, nurbs, disk, origin>>
    ELSE LET sd == SavedDim(nurbs, nsd)
             chunks == WriteChunks(types, nurbs, geometry, sd)
             raised == done < Len(chunks)
         IN  /\ done <= Len(chunks)
             /\ disk' = File(Concat(SubSeq(chunks, 1, done)))
             /\ origin' = [by |-> "write", geometry |-> geometry, nsd |-> sd,
                           arg |-> nsd, complete |-> ~raised, tampered |-> 0]
             /\ fh' = Finally(TRUE, raised)
             /\ res' = [op |-> "write", status |-> IF raised THEN "IOError" ELSE "ok",
                         geometry |-> geometry, nsd |-> nsd]
             /\ UNCHANGED <<types, nurbs>>

---------------------------------------------------------------------------
(* PetIGA._read *)

\* np.fromfile(fid, dtype, count) at offset pos: at most `count` elements,
\* fewer when the file ends first, all that is left when count is negative
FromFile(data, pos, count) ==
    LET left == Len(data) - pos
        k == IF count < 0 \/ count > left THEN left ELSE count
    IN  SubSeq(data, pos + 1, pos + k)

\* _read(fid, dtype): np.fromfile(fid, dtype, 1)[0] raises IndexError when
\* the file holds no further element
AtEnd(data, pos) == FromFile(data, pos, 1) = <<>>
_read(data, pos) == FromFile(data, pos, 1)[1]

---------------------------------------------------------------------------
(* PetIGA.read *)

\* lines 113-122: the loop over the axes; pos elements are consumed so far
RECURSIVE ReadAxes(_, _, _, _, _, _)
ReadAxes(T, data, pos, left, knots, sizes) ==
    IF left = 0 THEN [status |-> "ok", pos |-> pos, knots |-> knots, sizes |-> sizes]
    ELSE IF AtEnd(data, pos) THEN Raise("read", "IndexError", "degree", pos + 1)
    ELSE LET p == _read(data, pos) IN
    IF ~(p >= 1) THEN Raise("read", "AssertionError", "degree", pos + 1)
    ELSE IF AtEnd(data, pos + 1) THEN Raise("read", "IndexError", "knot_count", pos + 2)
    ELSE LET m == _read(data, pos + 1)
             n == Sub(T.I, Sub(T.I, m, p), 1)
             U == FromFile(data, pos + 2, m)
         IN
    IF ~(n >= 2) THEN Raise("read", "AssertionError", "knot_count", pos + 2)
    ELSE IF Len(U) # m THEN Raise("read", "AssertionError", "knots", pos + 3)
    ELSE ReadAxes(T, data, pos + 2 + m, left - 1, Append(knots, U), Append(sizes, n))

\* the control array built without the zero fill of np.zeros: the channels
\* nsd <= c < 3 hold the weight; breaks the embedding of C2
ControlNoFill(Cw, nsd, sizes) ==
    LET C == RollFrontToLast(ReshapeOrderF(Cw, <<nsd + 1>> \o sizes))
        shape == sizes \o <<4>>
    IN  [shape |-> shape,
         data |-> [k \in 1..Prod(shape) |->
                     LET i == UnravelC(k - 1, shape)
                         c == Last(i)
                     IN  IF c < nsd THEN At(C, i)
                         ELSE At(C, Front(i) \o <<nsd>>)]]

\* lines 137-146: the canonical 4-channel control array
Control(Cw, nsd, sizes) ==
    LET C == RollFrontToLast(ReshapeOrderF(Cw, <<nsd + 1>> \o sizes))
        shape == sizes \o <<4>>
    IN  [shape |-> shape,
         data |-> [k \in 1..Prod(shape) |->
                     LET i == UnravelC(k - 1, shape)
                         c == Last(i)
                     IN  IF c < nsd THEN At(C, i)
                         ELSE IF c = 3 THEN At(C, Front(i) \o <<nsd>>)
                         ELSE 0]]

\* lines 123-147: what follows the knot vectors
ReadControl(T, data, descr, dim, ax) ==
    LET pos == ax.pos
        geometry == AbsIndex(T.I, descr) >= 1
    IN
    IF ~geometry
    THEN [op |-> "read", status |-> "ok", pos |-> pos, dim |-> dim,
          knots |-> ax.knots, control |-> None]
    ELSE IF AtEnd(data, pos) THEN Raise("read", "IndexError", "nsd", pos + 1)
    ELSE LET nsd == _read(data, pos) IN
    IF ~(dim <= nsd /\ nsd <= 3) THEN Raise("read", "AssertionError", "nsd", pos + 1)
    ELSE IF AtEnd(data, pos + 1) THEN Raise("read", "IndexError", "vec_id", pos + 2)
    ELSE IF _read(data, pos + 1) # VEC_ID
         THEN Raise("read", "AssertionError", "vec_id", pos + 2)
    ELSE IF AtEnd(data, pos + 2) THEN Raise("read", "IndexError", "count", pos + 3)
    ELSE LET n == _read(data, pos + 2)
             Cw == FromFile(data, pos + 3, n)
         IN
    IF Len(Cw) # n THEN Raise("read", "AssertionError", "control", pos + 4)
    ELSE IF n # (nsd + 1) * Prod(ax.sizes)
         THEN Raise("read", "ValueError", "reshape", pos + 3)
    ELSE [op |-> "read", status |-> "ok", pos |-> pos + 3 + n, dim |-> dim,
          knots |-> ax.knots, control |-> Some(Control(Cw, nsd, ax.sizes))]

\* lines 109-147: what follows the magic number
ReadBody(T, data) ==
    IF AtEnd(data, 1) THEN Raise("read", "IndexError", "descr", 2)
    ELSE IF AtEnd(data, 2) THEN Raise("read", "IndexError", "dim", 3)
    ELSE LET descr == _read(data, 1)
             dim == _read(data, 2)
         IN
    IF ~(1 <= dim /\ dim <= 3) THEN Raise("read", "AssertionError", "dim", 3)
    ELSE LET ax == ReadAxes(T, data, 3, dim, <<>>, <<>>) IN
    IF ax.status # "ok" THEN ax
    ELSE ReadControl(T, data, descr, dim, ax)

\* read without `assert iga_id == self.IGA_ID`: breaks C5
ReadGeometryAnyMagic(T, data) ==
    IF AtEnd(data, 0) THEN Raise("read", "IndexError", "iga_id", 1)
    ELSE ReadBody(T, data)

\* lines 107-108: the magic number, then the rest
ReadGeometry(T, data) ==
    IF AtEnd(data, 0) THEN Raise("read", "IndexError", "iga_id", 1)
    ELSE IF _read(data, 0) # IGA_ID THEN Raise("read", "AssertionError", "iga_id", 1)
    ELSE ReadBody(T, data)

\* read(filename): open(filename, 'rb') raises when there is no such file
read ==
    IF ~disk.exists
    THEN /\ res' = Raise("read", "IOError", "open", 0)
         /\ fh' = Finally(FALSE, TRUE)
         /\ UNCHANGED <<types, nurbs, disk, origin>>
    ELSE /\ res' = ReadGeometry(types, disk.data)
         /\ fh' = Finally(TRUE, res'.status # "ok")
         /\ UNCHANGED <<types, nurbs, disk, origin>>

---------------------------------------------------------------------------
(* PetIGA.write_vec *)

\* lines 154-159: the array as it is written; `a` is the C-order flattening
\* of the caller's array.  With a geometry, reshape(nurbs.shape + (-1,))
\* raises unless the size is a multiple of the grid size
VecReshapeOk(g, a, withNurbs) ==
    ~withNurbs \/ Len(a) % Prod(g.shape) = 0

VecValues(g, a, withNurbs) ==
    IF withNurbs
    THEN LET shape == g.shape \o <<Len(a) \div Prod(g.shape)>>
             A == ReshapeOrderC(a, shape)
         IN  RavelOrderF(RollLastToFront(A))
    ELSE a

\* lines 163-165
VecChunks(T, A) ==
    << _write(T.I, <<VEC_ID>>), _write(T.I, <<Len(A)>>), _write(T.S, A) >>

\* write_vec(filename, array, nurbs); `done` as in write
write_vec(a, withNurbs, done) ==
    IF ~VecReshapeOk(nurbs, a, withNurbs)
    THEN /\ res' = [op |-> "write_vec", status |-> "ValueError"]
         /\ fh' = Finally(FALSE, TRUE)
         /\ UNCHANGED <<types, nurbs, disk, origin>>
    ELSE LET chunks == VecChunks(types, VecValues(nurbs, a, withNurbs))
             raised == done < Len(chunks)
         IN  /\ done <= Len(chunks)
             /\ disk' = File(Concat(SubSeq(chunks, 1, done)))
             /\ origin' = [by |-> "write_vec", array |-> a, withNurbs |-> withNurbs,
                           complete |-> ~raised, tampered |-> 0]
             /\ fh' = Finally(TRUE, raised)
             /\ res' = [op |-> "write_vec", status |-> IF raised THEN "IOError" ELSE "ok"]
             /\ UNCHANGED <<types, nurbs>>

---------------------------------------------------------------------------
(* PetIGA.read_vec *)

\* an exception out of read_vec, with the argument of the call
RaiseVec(exc, at, pos, withNurbs) ==
    [op |-> "read_vec", status |-> exc, at |-> at, pos |-> pos,
     withNurbs |-> withNurbs]

\* A.squeeze(): the axes of length one are dropped, the data stay in place
RECURSIVE DropOnes(_)
DropOnes(shape) ==
    IF shape = <<>> THEN <<>>
    ELSE IF Head(shape) = 1 THEN DropOnes(Tail(shape))
    ELSE <<Head(shape)>> \o DropOnes(Tail(shape))

\* no squeeze: the axis of length one of a dof = 1 vector is kept, which
\* breaks the shape promised by C3
SqueezeNone(A) == A

Squeeze(A) == [shape |-> DropOnes(A.shape), data |-> A.data]

\* lines 184-190: the array returned
VecArray(g, A, withNurbs) ==
    IF withNurbs
    THEN LET shape == <<Len(A) \div Prod(g.shape)>> \o g.shape
         IN  Squeeze(RollFrontToLast(ReshapeOrderF(A, shape)))
    ELSE [shape |-> <<Len(A)>>, data |-> A]

\* lines 176-190
ReadVector(g, data, withNurbs) ==
    IF AtEnd(data, 0) THEN RaiseVec("IndexError", "clsid", 1, withNurbs)
    ELSE IF _read(data, 0) # VEC_ID THEN RaiseVec("AssertionError", "clsid", 1, withNurbs)
    ELSE IF AtEnd(data, 1) THEN RaiseVec("IndexError", "count", 2, withNurbs)
    ELSE LET n == _read(data, 1)
             A == FromFile(data, 2, n)
         IN
    IF Len(A) # n THEN RaiseVec("AssertionError", "values", 3, withNurbs)
    ELSE IF withNurbs /\ n % Prod(g.shape) # 0
         THEN RaiseVec("ValueError", "reshape", 2, withNurbs)
    ELSE [op |-> "read_vec", status |-> "ok", withNurbs |-> withNurbs,
          array |-> VecArray(g, A, withNurbs)]

read_vec(withNurbs) ==
    IF ~disk.exists
    THEN /\ res' = RaiseVec("IOError", "open", 0, withNurbs)
         /\ fh' = Finally(FALSE, TRUE)
         /\ UNCHANGED <<types, nurbs, disk, origin>>
    ELSE /\ res' = ReadVector(nurbs, disk.data, withNurbs)
         /\ fh' = Finally(TRUE, res'.status # "ok")
         /\ UNCHANGED <<types, nurbs, disk, origin>>

---------------------------------------------------------------------------
(* PetIGA.read_mat *)

\* np.cumsum(rownz, out=AI[1:]) after AI[0] = 0
RECURSIVE CumSum(_, _)
CumSum(acc, rownz) ==
    IF rownz = <<>> THEN <<>>
    ELSE <<acc + Head(rownz)>> \o CumSum(acc + Head(rownz), Tail(rownz))

RowPointers(rownz) == <<0>> \o CumSum(0, rownz)

\* lines 199-213
ReadMatrix(data) ==
    IF AtEnd(data, 0) THEN Raise("read_mat", "IndexError", "clsid", 1)
    ELSE IF _read(data, 0) # MAT_ID THEN Raise("read_mat", "AssertionError", "clsid", 1)
    ELSE LET hdr == FromFile(data, 1, 3) IN
    IF Len(hdr) # 3 THEN Raise("read_mat", "ValueError", "header", 2)
    ELSE LET M == hdr[1]
             N == hdr[2]
             nz == hdr[3]
         IN
    IF M + 1 < 0 THEN Raise("read_mat", "ValueError", "M", 2)
    ELSE IF M + 1 = 0 THEN Raise("read_mat", "IndexError", "M", 2)
    ELSE LET rownz == FromFile(data, 4, M) IN
    IF Len(rownz) # M THEN Raise("read_mat", "ValueError", "rownz", 5)
    ELSE LET AI == RowPointers(rownz)
             AJ == FromFile(data, 4 + M, nz)
         IN
    IF AI[Len(AI)] # nz THEN Raise("read_mat", "AssertionError", "nz", 4)
    ELSE IF Len(AJ) # nz THEN Raise("read_mat", "AssertionError", "AJ", 5 + M)
    ELSE LET AV == FromFile(data, 4 + M + nz, nz) IN
    IF Len(AV) # nz THEN Raise("read_mat", "AssertionError", "AV", 5 + M + nz)
    ELSE [op |-> "read_mat", status |-> "ok", M |-> M, N |-> N,
          AI |-> AI, AJ |-> AJ, AV |-> AV]

read_mat ==
    IF ~disk.exists
    THEN /\ res' = Raise("read_mat", "IOError", "open", 0)
         /\ fh' = Finally(FALSE, TRUE)
         /\ UNCHANGED <<types, nurbs, disk, origin>>
    ELSE /\ res' = ReadMatrix(disk.data)
         /\ fh' = Finally(TRUE, res'.status # "ok")
         /\ UNCHANGED <<types, nurbs, disk, origin>>

---------------------------------------------------------------------------
(* The environment: the file named `filename` is shared with other         *)
(* programs (PetIGA itself writes the matrix files read by read_mat)       *)

Environment == [op |-> "env", status |-> "ok"]

\* another program stores a sparse-matrix file
PutMat(magic, M, N, nz, rownz, cols, vals) ==
    /\ disk' = File(<<magic, M, N, nz>> \o rownz \o cols \o vals)
    /\ origin' = [by |-> "other", complete |-> TRUE, tampered |-> 0]
    /\ res' = Environment
    /\ UNCHANGED <<types, nurbs, fh>>

\* one element of a completely written file is altered; at most `limit`
\* alterations of a file are considered
Tamper(limit, pos, v) ==
    /\ disk.exists /\ origin.complete
    /\ origin.tampered < limit
    /\ pos \in 1..Len(disk.data)
    /\ disk.data[pos] # v
    /\ disk' = File([disk.data EXCEPT ![pos] = v])
    /\ origin' = [origin EXCEPT !.tampered = @ + 1]
    /\ res' = Environment
    /\ UNCHANGED <<types, nurbs, fh>>

\* the file is cut to its first k elements
Truncate(limit, k) ==
    /\ disk.exists /\ origin.complete
    /\ origin.tampered < limit
    /\ k < Len(disk.data)
    /\ disk' = File(SubSeq(disk.data, 1, k))
    /\ origin' = [origin EXCEPT !.tampered = @ + 1]
    /\ res' = Environment
    /\ UNCHANGED <<types, nurbs, fh>>

---------------------------------------------------------------------------
(* Specification of the geometry round trip: a codec of any type profile    *)
(* writes a geometry completely and reads the file back                     *)

NoResult == [op |-> "none", status |-> "ok"]
NoOrigin == [by |-> "none", complete |-> FALSE, tampered |-> 0]

InitRoundTrip ==
    /\ types \in AllTypes
    /\ nurbs \in Geometries(MaxPoints, MaxKnots)
    /\ disk = NoFile
    /\ origin = NoOrigin
    /\ fh = "none"
    /\ res = NoResult

NsdArgs == {None} \cup {Some(k) : k \in 0..4}

WriteCalls(g, geometry) == 3 + 3 * g.dim + (IF geometry THEN 4 ELSE 0)

\* A write that passes its checks replaces the file whatever it held, so
\* the file is written once in each behaviour
NextRoundTrip ==
    \/ \E geometry \in BOOLEAN, nsd \in NsdArgs :
          /\ ~disk.exists
          /\ WriteArgsOk(nurbs, geometry, nsd)
          /\ write(geometry, nsd, WriteCalls(nurbs, geometry))
    \/ read

SpecRoundTrip == InitRoundTrip /\ [][NextRoundTrip]_vars

---------------------------------------------------------------------------
(* Specification of reading damaged geometry files: a codec of the default *)
(* precision writes the smallest geometries completely, another program    *)
(* alters header fields or cuts the file, and the codec reads it           *)

\* PetIGA.__init__ defaults, with either index width
DefaultTypes(ind) == Types("double", "real", ind)

\* a line segment and a bilinear patch
SmallGeometries ==
    { Nurbs(<<1>>, <<2>>, FALSE, FALSE), Nurbs(<<1, 1>>, <<2, 2>>, FALSE, FALSE) }

Segment == Nurbs(<<1>>, <<2>>, FALSE, FALSE)

\* positions of the Index fields of a file written for g: the header, each
\* axis's degree and knot count, then nsd, the vector magic and the count
RECURSIVE AxisFields(_, _)
AxisFields(pos, knots) ==
    IF knots = <<>> THEN {}
    ELSE {pos + 1, pos + 2} \cup AxisFields(pos + 2 + Len(Head(knots)), Tail(knots))

IndexFields(g) ==
    {1, 2, 3} \cup AxisFields(3, g.knots)
        \cup { CountOffset(g) - 2, CountOffset(g) - 1, CountOffset(g) }

\* values another program may leave in an Index field; the most negative
\* value of the index type is modelled for '>i4' only
TamperValues(T) ==
    {0, -1, 2, 4} \cup (IF T.I = "i4" THEN {MinInt32} ELSE {})

InitCorrupt ==
    /\ types \in { DefaultTypes(i) : i \in {"b32", "b64"} }
    /\ nurbs \in SmallGeometries
    /\ disk = NoFile
    /\ origin = NoOrigin
    /\ fh = "none"
    /\ res = NoResult

NextCorrupt ==
    \/ \E geometry \in BOOLEAN, nsd \in NsdArgs :
          /\ ~disk.exists
          /\ WriteArgsOk(nurbs, geometry, nsd)
          /\ write(geometry, nsd, WriteCalls(nurbs, geometry))
    \/ read
    \/ \E pos \in IndexFields(nurbs), v \in TamperValues(types) :
          Tamper(MaxTamper, pos, v)
    \/ \E k \in 0..(CountOffset(nurbs) + 4 * Prod(nurbs.shape)) :
          Truncate(MaxTamper, k)

SpecCorrupt == InitCorrupt /\ [][NextCorrupt]_vars

---------------------------------------------------------------------------
(* Specification of the vector round trip *)

\* the C-order flattening of an array of `len` distinct numbers; with `big`
\* the last one is not a float32
VecInput(len, big) ==
    [k \in 1..len |-> IF big /\ k = len THEN F4Exact + 1 ELSE 10 + k]

\* arrays of dof values per grid point, or of one more element
VecInputs(g) ==
    { VecInput(dof * Prod(g.shape) + extra, big) :
        dof \in 1..MaxDof, extra \in {0, 1}, big \in BOOLEAN }

InitVec ==
    /\ types \in AllTypes
    /\ nurbs \in { Nurbs([i \in 1..Len(sh) |-> 1], sh, FALSE, FALSE) :
                      sh \in GridShapes(MaxPoints) }
    /\ disk = NoFile
    /\ origin = NoOrigin
    /\ fh = "none"
    /\ res = NoResult

NextVec ==
    \/ \E a \in VecInputs(nurbs), withNurbs \in BOOLEAN, done \in 0..3 :
          /\ ~disk.exists
          /\ write_vec(a, withNurbs, done)
    \/ \E withNurbs \in BOOLEAN : read_vec(withNurbs)

SpecVec == InitVec /\ [][NextVec]_vars

---------------------------------------------------------------------------
(* Specification of reading sparse-matrix files stored by another program *)

SeqsUpTo(S, n) == UNION { [1..k -> S] : k \in 0..n }

\* files with M rows, N columns, per-row counts in -1..maxNz and column
\* indices that are in range (0) or not (N); the values are 7, 8, ...
MatFiles(maxM, maxNz) ==
    { <<magic, Len(rownz), N, nz, rownz, cols, [k \in 1..Len(cols) |-> 6 + k]>> :
        magic \in {MAT_ID, VEC_ID}, N \in 1..2, nz \in -1..maxNz,
        rownz \in SeqsUpTo(-1..maxNz, maxM),
        cols \in UNION { SeqsUpTo({0, n}, maxNz) : n \in 1..2 } }

InitMat ==
    /\ types = DefaultTypes("b32")
    /\ nurbs = Segment
    /\ disk = NoFile
    /\ origin = NoOrigin
    /\ fh = "none"
    /\ res = NoResult

NextMat ==
    \/ \E f \in MatFiles(MaxM, MaxNz) :
          /\ ~disk.exists
          /\ PutMat(f[1], f[2], f[3], f[4], f[5], f[6], f[7])
    \/ read_mat
    \/ \E k \in 0..(4 + MaxM + 2 * MaxNz) : Truncate(1, k)

SpecMat == InitMat /\ [][NextMat]_vars

---------------------------------------------------------------------------
(* Specification of all five operations on one file name, with I/O faults  *)
(* of the writers and a file that another program may have stored, altered *)
(* in one place or cut                                                     *)

Init ==
    /\ types = DefaultTypes("b32")
    /\ nurbs = Segment
    /\ disk = NoFile
    /\ origin = NoOrigin
    /\ fh = "none"
    /\ res = NoResult

\* A writer that passes its checks replaces the file whatever it held, so
\* only the writes that fail their checks are tried on an existing file
Next ==
    \/ \E geometry \in BOOLEAN, nsd \in NsdArgs, done \in 0..WriteCalls(nurbs, TRUE) :
          /\ ~disk.exists \/ ~WriteArgsOk(nurbs, geometry, nsd)
          /\ write(geometry, nsd, done)
    \/ read
    \/ \E a \in VecInputs(nurbs), withNurbs \in BOOLEAN, done \in 0..3 :
          /\ ~disk.exists \/ ~VecReshapeOk(nurbs, a, withNurbs)
          /\ write_vec(a, withNurbs, done)
    \/ \E withNurbs \in BOOLEAN : read_vec(withNurbs)
    \/ read_mat
    \/ \E f \in MatFiles(1, 1) :
          /\ ~disk.exists
          /\ PutMat(f[1], f[2], f[3], f[4], f[5], f[6], f[7])
    \/ \E pos \in IndexFields(nurbs) :
          /\ origin.by # "other"
          /\ Tamper(1, pos, 0)
    \/ \E k \in 0..(CountOffset(nurbs) + 4 * Prod(nurbs.shape)) :
          /\ origin.by # "other"
          /\ Truncate(1, k)

Spec == Init /\ [][Next]_vars

---------------------------------------------------------------------------
(* Properties of the geometry round trip *)

\* the file on disk is the complete output of write(nurbs, geometry=True, ...)
WrittenWithControl ==
    /\ origin.by = "write" /\ origin.complete /\ origin.tampered = 0
    /\ origin.geometry

\* the spatial channels c >= dim of g.control are zero
ZeroPadded(g) ==
    \A k \in 1..Prod(g.control.shape) :
        LET c == Last(UnravelC(k - 1, g.control.shape))
        IN  (g.dim <= c /\ c < 3) => g.control.data[k] = 0

\* v (an integer of magnitude at most 2^25) is a value of the dtype
Representable(dtype, v) ==
    dtype \in {"f8", "c16"} \/ Abs(v) <= F4Exact \/ v % 2 = 0

KnotsRepresentable(g) ==
    \A i \in 1..g.dim : \A j \in 1..Len(g.knots[i]) :
        Representable(types.R, g.knots[i][j])

ControlRepresentable(g) ==
    \A k \in 1..Prod(g.control.shape) : Representable(types.S, g.control.data[k])

\* the geometry returned by read is nurbs: dimension, degrees (recovered as
\* m - n - 1), knots and the 4-channel control array
SameGeometry(r, g) ==
    /\ r.status = "ok"
    /\ r.dim = g.dim
    /\ r.control # None
    /\ r.control[1].shape = g.shape \o <<4>>
    /\ \A i \in 1..g.dim :
          Len(r.knots[i]) - r.control[1].shape[i] - 1 = g.degree[i]
    /\ r.knots = g.knots
    /\ r.control[1] = g.control

RoundTripCase ==
    /\ res.op = "read" /\ WrittenWithControl
    /\ origin.arg = None /\ ZeroPadded(nurbs)

\* C1 (as claimed): write with the default nsd, then read with the same type
\* profile, returns a geometry identical to the one written
C1_RoundTripAnyProfile == RoundTripCase => SameGeometry(res, nurbs)

\* C1 (amended): the same, for a geometry whose knots are values of the
\* profile's Real type and whose control values are values of its Scalar
\* type (every geometry under double precision)
C1_RoundTrip ==
    (RoundTripCase /\ KnotsRepresentable(nurbs) /\ ControlRepresentable(nurbs))
        => SameGeometry(res, nurbs)

C1_Witness ==
    /\ RoundTripCase /\ KnotsRepresentable(nurbs) /\ ControlRepresentable(nurbs)
    /\ res.status = "ok" /\ nurbs.dim = 2 /\ nurbs.shape = <<2, 3>>
    /\ types.R = "f4"

\* the grid indices (i_1, ..., i_d), 0-based, of a grid of the given sizes
GridIndices(sizes) ==
    { i \in [1..Len(sizes) -> 0..SumSeq(sizes)] : \A j \in 1..Len(sizes) : i[j] < sizes[j] }

\* the channels of g.control that write(nsd=sd) saves are values of the
\* profile's Scalar type
SavedRepresentable(g, sd) ==
    \A i \in GridIndices(g.shape) : \A c \in (0..(sd - 1)) \cup {3} :
        Representable(types.S, At(g.control, i \o <<c>>))

EmbeddingCase == res.op = "read" /\ WrittenWithControl

\* what C2 says of the control array r returned after write(nsd=sd)
Embedded(r, g, sd) ==
    /\ r.status = "ok"
    /\ r.control # None
    /\ r.control[1].shape = g.shape \o <<4>>
    /\ \A i \in GridIndices(g.shape) :
          /\ \A c \in 0..(sd - 1) :
                At(r.control[1], i \o <<c>>) = At(g.control, i \o <<c>>)
          /\ At(r.control[1], i \o <<3>>) = At(g.control, i \o <<3>>)
          /\ \A c \in sd..2 : At(r.control[1], i \o <<c>>) = 0

\* C2 (as claimed): after write(nsd) with dim <= nsd <= 3, read returns the
\* channels [0, nsd) and the weight of g.control, and zero in [nsd, 3)
C2_EmbeddingAnyProfile == EmbeddingCase => Embedded(res, nurbs, origin.nsd)

\* C2 (amended): the same, when the saved channels of g.control hold values
\* of the profile's Scalar type (always so under double precision)
C2_Embedding ==
    (EmbeddingCase /\ SavedRepresentable(nurbs, origin.nsd))
        => Embedded(res, nurbs, origin.nsd)

\* a curve with non-zero y, z saved with nsd = 2: z is read back as zero
C2_Witness ==
    /\ EmbeddingCase /\ SavedRepresentable(nurbs, origin.nsd)
    /\ nurbs.dim = 1 /\ origin.nsd = 2 /\ res.status = "ok"
    /\ At(nurbs.control, <<0, 2>>) # 0
    /\ At(res.control[1], <<0, 2>>) = 0

\* i_1 + n_1 * (i_2 + n_2 * i_3)
GridPosition(i, n) ==
    IF Len(n) = 1 THEN i[1]
    ELSE IF Len(n) = 2 THEN i[1] + n[1] * i[2]
    ELSE i[1] + n[1] * (i[2] + n[2] * i[3])

\* what C8 says of the file written by write(nsd=sd)
Layout(data, g, sd) ==
    /\ data[CountOffset(g)] = (sd + 1) * Prod(g.shape)
    /\ Len(data) = CountOffset(g) + (sd + 1) * Prod(g.shape)
    /\ \A i \in GridIndices(g.shape) : \A c \in 0..sd :
          data[CountOffset(g) + 1 + c + (sd + 1) * GridPosition(i, g.shape)]
              = At(g.control, i \o <<IF c < sd THEN c ELSE 3>>)

\* C8 (as claimed): the count field is (nsd+1) * prod(n_i) and the value at
\* flat position c + (nsd+1) * (i_1 + n_1 * (i_2 + n_2 * i_3)) is
\* g.control[i_1, ..., i_d, ch(c)]
C8_LayoutAnyProfile == WrittenWithControl => Layout(disk.data, nurbs, origin.nsd)

\* C8 (amended): the same, when the saved channels of g.control hold values
\* of the profile's Scalar type; otherwise the value written is the nearest
\* value of that type
C8_Layout ==
    (WrittenWithControl /\ SavedRepresentable(nurbs, origin.nsd))
        => Layout(disk.data, nurbs, origin.nsd)

C8_Witness ==
    /\ WrittenWithControl /\ SavedRepresentable(nurbs, origin.nsd)
    /\ res.op = "write" /\ nurbs.dim = 2 /\ nurbs.shape = <<2, 3>> /\ origin.nsd = 3
    /\ types.S = "c8"

---------------------------------------------------------------------------
(* Properties of the vector round trip *)

\* position of (i_1, ..., i_d, k) in the row-major flattening of an array
\* of shape (n_1, ..., n_d, dof)
RowMajor(i, k, n, dof) ==
    IF Len(n) = 1 THEN i[1] * dof + k
    ELSE IF Len(n) = 2 THEN (i[1] * n[2] + i[2]) * dof + k
    ELSE ((i[1] * n[2] + i[2]) * n[3] + i[3]) * dof + k

VecCase ==
    /\ res.op = "read_vec" /\ res.withNurbs
    /\ origin.by = "write_vec" /\ origin.complete /\ origin.tampered = 0
    /\ origin.withNurbs

\* what C3 says of the array r returned for the array a written
SameVector(r, a, n) ==
    LET dof == Len(a) \div Prod(n) IN
    /\ r.status = "ok"
    /\ r.array.shape = IF dof > 1 THEN n \o <<dof>> ELSE n
    /\ \A i \in GridIndices(n) : \A k \in 0..(dof - 1) :
          At(r.array, IF dof > 1 THEN i \o <<k>> ELSE i)
              = a[1 + RowMajor(i, k, n, dof)]

\* C3 (as claimed): write_vec(a, nurbs=g) then read_vec(nurbs=g) returns a,
\* of shape (n_1, ..., n_d, dof), or (n_1, ..., n_d) when dof = 1
C3_VectorRoundTripAnyProfile ==
    VecCase => SameVector(res, origin.array, nurbs.shape)

\* C3 (amended): the same, for an array whose elements are values of the
\* profile's Scalar type (every real array under double precision)
C3_VectorRoundTrip ==
    (VecCase /\ \A k \in 1..Len(origin.array) :
                    Representable(types.S, origin.array[k]))
        => SameVector(res, origin.array, nurbs.shape)

C3_Witness ==
    /\ VecCase /\ res.status = "ok"
    /\ nurbs.shape = <<2, 3>> /\ Len(origin.array) = 12
    /\ types.S = "f4"
    /\ \A k \in 1..Len(origin.array) : Representable(types.S, origin.array[k])

---------------------------------------------------------------------------
(* Properties of read_mat *)

\* C4: every result ((M, N), (row_ptr, col_idx, values)) of read_mat has
\* len(row_ptr) = M + 1, row_ptr[0] = 0, row_ptr non-decreasing,
\* row_ptr[M] = len(col_idx) = len(values) and every col_idx < N, so that a
\* file with a negative row count or a column index >= N is not returned
C4_MatrixInvariants ==
    (res.op = "read_mat" /\ res.status = "ok") =>
        /\ Len(res.AI) = res.M + 1
        /\ res.AI[1] = 0
        /\ \A r \in 1..res.M : res.AI[r] <= res.AI[r + 1]
        /\ res.AI[res.M + 1] = Len(res.AJ)
        /\ Len(res.AJ) = Len(res.AV)
        /\ disk.data[4] = Len(res.AJ)
        /\ \A j \in 1..Len(res.AJ) : res.AJ[j] < res.N

---------------------------------------------------------------------------
(* Properties of reading damaged geometry files *)

\* the file ends after the knot count m of one of its axes and before the
\* last of that axis's m knots; `left` axes start after position pos
RECURSIVE EndsInKnots(_, _, _)
EndsInKnots(data, pos, left) ==
    /\ left > 0
    /\ Len(data) >= pos + 2
    /\ LET m == data[pos + 2] IN
       IF Len(data) < pos + 2 + m THEN TRUE
       ELSE m >= 0 /\ EndsInKnots(data, pos + 2 + m, left - 1)

TruncatedInKnots(data) ==
    Len(data) >= 3 /\ data[3] \in 1..3 /\ EndsInKnots(data, 3, data[3])

BadMagic(data) == data = <<>> \/ data[1] # IGA_ID

\* C5: read fails on a file whose first Index is not the geometry magic, at
\* that field, and fails on a file that ends between an axis's knot count m
\* and the last of its m knots
C5_CorruptionDetected ==
    (res.op = "read" /\ disk.exists) =>
        /\ BadMagic(disk.data) =>
              res.status # "ok" /\ res.at = "iga_id" /\ res.pos = 1
        /\ TruncatedInKnots(disk.data) => res.status # "ok"

C5_Witness ==
    /\ res.op = "read" /\ ~BadMagic(disk.data) /\ TruncatedInKnots(disk.data)
    /\ res.status = "AssertionError" /\ res.at = "knots"

\* the first field, in file order, that breaks 1 <= dim <= 3, degree >= 1,
\* n = m - degree - 1 >= 2, dim <= nsd <= 3 or the vector magic (the last two
\* when the descriptor announces control data); 0 when the fields present
\* break none
RECURSIVE FirstBadAxisField(_, _, _)
FirstBadAxisField(data, pos, left) ==
    IF left = 0 THEN [bad |-> 0, pos |-> pos]
    ELSE IF Len(data) < pos + 1 THEN [bad |-> 0, pos |-> 0]
    ELSE IF data[pos + 1] < 1 THEN [bad |-> pos + 1, pos |-> 0]
    ELSE IF Len(data) < pos + 2 THEN [bad |-> 0, pos |-> 0]
    ELSE IF data[pos + 2] < data[pos + 1] + 3 THEN [bad |-> pos + 2, pos |-> 0]
    ELSE IF Len(data) < pos + 2 + data[pos + 2] THEN [bad |-> 0, pos |-> 0]
    ELSE FirstBadAxisField(data, pos + 2 + data[pos + 2], left - 1)

FirstBadField(data) ==
    IF Len(data) < 3 THEN 0
    ELSE IF ~(data[3] \in 1..3) THEN 3
    ELSE LET ax == FirstBadAxisField(data, 3, data[3]) IN
    IF ax.bad # 0 \/ ax.pos = 0 \/ data[2] = 0 THEN ax.bad
    ELSE IF Len(data) < ax.pos + 1 THEN 0
    ELSE IF ~(data[3] <= data[ax.pos + 1] /\ data[ax.pos + 1] <= 3) THEN ax.pos + 1
    ELSE IF Len(data) < ax.pos + 2 THEN 0
    ELSE IF data[ax.pos + 2] # VEC_ID THEN ax.pos + 2
    ELSE 0

\* C7: a geometry is returned only for a file whose fields are all in range,
\* and on a file with a field out of range read fails no later than at the
\* first such field
C7_ReadValidation ==
    (res.op = "read" /\ disk.exists) =>
        /\ res.status = "ok" => FirstBadField(disk.data) = 0
        /\ FirstBadField(disk.data) # 0 =>
              res.status # "ok" /\ res.pos <= FirstBadField(disk.data)

\* the end of the last knot vector of a file whose axes are all present
KnotsEnd(data) == FirstBadAxisField(data, 3, data[3]).pos

\* C10: write stores descriptor 1 and the nsd, magic, count and control
\* fields with geometry=True, descriptor 0 and nothing after the knots with
\* geometry=False; read takes every non-zero descriptor as control data
\* present and reads those fields, and descriptor 0 as nothing more to read;
\* a topology-only write then read returns the knots and no control
C10_Descriptor ==
    /\ (origin.by = "write" /\ origin.complete /\ origin.tampered = 0) =>
          /\ disk.data[2] = IF origin.geometry THEN 1 ELSE 0
          /\ Len(disk.data) =
                IF origin.geometry
                THEN CountOffset(nurbs) + (origin.nsd + 1) * Prod(nurbs.shape)
                ELSE CountOffset(nurbs) - 3
          /\ origin.geometry =>
                /\ disk.data[CountOffset(nurbs) - 2] = origin.nsd
                /\ disk.data[CountOffset(nurbs) - 1] = VEC_ID
          /\ (res.op = "read" /\ ~origin.geometry) =>
                /\ res.status = "ok" /\ res.control = None
                /\ res.knots = nurbs.knots
    /\ (res.op = "read" /\ disk.exists /\ res.status = "ok") =>
          IF disk.data[2] # 0
          THEN res.control # None /\ res.pos > KnotsEnd(disk.data) + 3
          ELSE res.control = None /\ res.pos = KnotsEnd(disk.data)

---------------------------------------------------------------------------
(* Properties of the five operations *)

Operations == {"write", "read", "write_vec", "read_vec", "read_mat"}

\* the operation ended before it opened a file: a failed check of write or
\* write_vec, or no file to read
EndedBeforeOpen(r) ==
    \/ r.op = "write" /\ r.status = "AssertionError"
    \/ r.op = "write_vec" /\ r.status = "ValueError"
    \/ r.op \in {"read", "read_vec", "read_mat"} /\ r.status = "IOError"

\* C6: when an operation has returned or raised, the handle it opened is
\* closed, on every exit path
C6_HandleReleased ==
    res.op \in Operations =>
        IF EndedBeforeOpen(res) THEN fh = "none" ELSE fh = "closed"

C6_Witness ==
    /\ res.op = "read_mat" /\ res.status = "AssertionError" /\ fh = "closed"

\* C9: a write whose nsd is outside [dim, 3] (geometry=True) or is set
\* (geometry=False) fails before the file is opened and leaves the file as
\* it was; with geometry=True and nsd unset the write opens the file and
\* stores nsd = dim
C9_WriteValidation ==
    [][ res'.op = "write" =>
          LET nsd == res'.nsd
              bad == IF nsd = None THEN FALSE
                     ELSE IF res'.geometry
                          THEN ~(nurbs.dim <= nsd[1] /\ nsd[1] <= 3)
                          ELSE TRUE
          IN  /\ bad => /\ res'.status = "AssertionError"
                        /\ fh' = "none"
                        /\ disk' = disk
              /\ (res'.geometry /\ nsd = None) =>
                    /\ res'.status # "AssertionError"
                    /\ fh' = "closed"
                    /\ disk'.exists
                    /\ origin'.by = "write" /\ origin'.nsd = nurbs.dim
                    /\ origin'.complete =>
                          disk'.data[CountOffset(nurbs) - 2] = nurbs.dim
      ]_vars

C9_Witness ==
    /\ res.op = "write" /\ res.status = "AssertionError"
    /\ res.geometry /\ res.nsd = Some(0)
    /\ disk.exists /\ origin.by = "write_vec"

=============================================================================
